---- MODULE Spec2Model ----
(***************************************************************************)
(* A model of reduct (src/reduct.cpp): atoms, lookup, the reader, the      *)
(* evaluator and the driver loop repl().                                   *)
(*                                                                         *)
(* An atom is a pair <<type, value>>: value is a string for the three       *)
(* string-like types and a function from atoms to atoms for a table        *)
(* (std::map<atom, atom>: unique keys, structural equality).  A text is a   *)
(* sequence of one-character strings and is read character by character.   *)
(***************************************************************************)
EXTENDS Integers, Sequences, FiniteSets, TLC

VARIABLES
    pc,             \* where repl is: "prompt", "eval", "printed", "aborted"
    input,          \* the line prompt_user returned
    value,          \* repl's value
    known_states,   \* repl's known_states
    infinite_loop,  \* repl's infinite_loop
    out,            \* what repl printed for this line
    expr,           \* history: the argument of the last eval
    steps,          \* history: the number of eval calls for this line
    trace           \* history: read's result, then each eval's result

vars == <<pc, input, value, known_states, infinite_loop, out, expr, steps, trace>>

(***************************************************************************)
(* Atoms                                                                   *)
(***************************************************************************)
atom_type == {"symbol", "string", "table", "substitution"}

type(a) == a[1]

is_string_type(a) == type(a) \in {"symbol", "string", "substitution"}

make_symbol(v) == <<"symbol", v>>

make_substitution(v) == <<"substitution", v>>

make_string(v) == <<"string", v>>

make_table(values) == <<"table", values>>

is_symbol(a) == type(a) = "symbol"

is_substitution(a) == type(a) = "substitution"

is_string(a) == type(a) = "string"

is_table(a) == type(a) = "table"

get_value(a) == a[2]

get_pairs(a) == a[2]

symbols_type == make_symbol("__type")

symbols_error == make_symbol("error")

symbols_statement == make_symbol("statement")

symbols_error_type == make_symbol("__error-type")

symbols_lookup_error == make_symbol("lookup-error")

symbols_read_error == make_symbol("read-error")

symbols_map == make_symbol("map")

symbols_key == make_symbol("key")

symbols_message == make_symbol("message")

symbols_universal_lookup_key == make_symbol("universal_lookup_key")

symbols_value == make_symbol("value")

symbols_zero == make_symbol("0")

symbols_one == make_symbol("1")

tables_empty == make_table(<<>>)

\* std::map::emplace: inserts only when the key is not there yet.
emplace(values, k, v) == IF k \in DOMAIN values THEN values ELSE values @@ (k :> v)

make_error(etype, msg, data) ==
    make_table(emplace(emplace(emplace(data, symbols_type, symbols_error),
                               symbols_error_type, etype),
                       symbols_message, make_string(msg)))

make_statement(atoms) == make_table(emplace(atoms, symbols_type, symbols_statement))

lookup_data(map, key) == (symbols_map :> map) @@ (symbols_key :> key)

\* A faulty lookup: the error of a missing key carries map and key swapped.
lookup_swapped(map, key) ==
    IF ~is_table(map)
    THEN make_error(symbols_lookup_error, "Expected a table for lookup",
                    lookup_data(map, key))
    ELSE IF key \in DOMAIN get_pairs(map)
         THEN get_pairs(map)[key]
         ELSE make_error(symbols_lookup_error, "Could not find key in table",
                         lookup_data(key, map))

lookup(map, key) ==
    IF ~is_table(map)
    THEN make_error(symbols_lookup_error, "Expected a table for lookup",
                    lookup_data(map, key))
    ELSE IF key \in DOMAIN get_pairs(map)
         THEN get_pairs(map)[key]
         ELSE make_error(symbols_lookup_error, "Could not find key in table",
                         lookup_data(map, key))

lookup_eq(a, key, rhs) == is_table(a) /\ lookup(a, key) = rhs

is_statement(a) == lookup_eq(a, symbols_type, symbols_statement)

is_error(a) == lookup_eq(a, symbols_type, symbols_error)

Digit == <<"0", "1", "2", "3", "4", "5", "6", "7", "8", "9">>

RECURSIVE to_string(_)
to_string(n) == IF n < 10 THEN Digit[n + 1] ELSE to_string(n \div 10) \o Digit[(n % 10) + 1]

RECURSIVE len_from(_, _)
len_from(a, n) ==
    IF is_error(lookup(a, make_symbol(to_string(n)))) THEN n ELSE len_from(a, n + 1)

len(a) == len_from(a, 0)

(***************************************************************************)
(* Universal lookup and eval                                               *)
(***************************************************************************)
\* The pair whose key is a substitution, or nullopt.  std::find_if takes the
\* first such key in map order; read_table admits at most one per table.
has_universal_lookup_pair(a) == \E k \in DOMAIN get_pairs(a) : is_substitution(k)

get_universal_lookup_pair(a) ==
    LET k == CHOOSE k \in DOMAIN get_pairs(a) : is_substitution(k)
    IN  <<k, get_pairs(a)[k]>>

mismatch_data(map, key, ul_key, a) ==
    lookup_data(map, key) @@ (symbols_universal_lookup_key :> ul_key) @@ (symbols_value :> a)

\* A faulty fn_substitute: the wildcard is left in place.
fn_substitute_none(map, key, ul_key, a) ==
    IF is_substitution(a) /\ ul_key # a
    THEN make_error(symbols_lookup_error,
                    "Mismatch between substitution key and expression",
                    mismatch_data(map, key, ul_key, a))
    ELSE a

fn_substitute(map, key, ul_key, a) ==
    IF is_substitution(a) /\ ul_key # a
    THEN make_error(symbols_lookup_error,
                    "Mismatch between substitution key and expression",
                    mismatch_data(map, key, ul_key, a))
    ELSE IF a = ul_key THEN key ELSE a

RECURSIVE substitute_from(_, _, _, _, _, _, _)
substitute_from(map, key, ul_key, ul_expr, new_expr, i, ul_expr_len) ==
    IF i < ul_expr_len
    THEN LET isym == make_symbol(to_string(i))
             v == lookup(ul_expr, isym)
         IN  substitute_from(map, key, ul_key, ul_expr,
                             emplace(new_expr, isym, fn_substitute(map, key, ul_key, v)),
                             i + 1, ul_expr_len)
    ELSE new_expr

universal_lookup(map, key) ==
    IF ~has_universal_lookup_pair(map)
    THEN make_error(symbols_lookup_error, "Could not find key in table",
                    lookup_data(map, key))
    ELSE LET pul == get_universal_lookup_pair(map)
             ul_key == pul[1]
             ul_expr == pul[2]
         IN  IF ~is_statement(ul_expr)
             THEN fn_substitute(map, key, ul_key, ul_expr)
             ELSE make_statement(substitute_from(map, key, ul_key, ul_expr,
                                                 <<>>, 0, len(ul_expr)))

\* The lookup of eval: the direct lookup, then the universal one.
eval_lookup(map, key) ==
    LET result == lookup(map, key)
    IN  IF is_error(result) /\ is_table(map) THEN universal_lookup(map, key) ELSE result

\* A faulty rest_from: the rest is copied from the key on, not from after it.
RECURSIVE rest_from_key(_, _, _, _)
rest_from_key(expr_, new_expr, n, expr_len) ==
    IF n < expr_len
    THEN rest_from_key(expr_,
                       emplace(new_expr, make_symbol(to_string(n - 1)),
                               lookup(expr_, make_symbol(to_string(n - 1)))),
                       n + 1, expr_len)
    ELSE new_expr

RECURSIVE rest_from(_, _, _, _)
rest_from(expr_, new_expr, n, expr_len) ==
    IF n < expr_len
    THEN rest_from(expr_,
                   emplace(new_expr, make_symbol(to_string(n - 1)),
                           lookup(expr_, make_symbol(to_string(n)))),
                   n + 1, expr_len)
    ELSE new_expr

RECURSIVE eval(_)
eval(expr_) ==
    IF ~is_statement(expr_)
    THEN expr_
    ELSE LET expr_len == len(expr_)
         IN  IF expr_len = 1
             THEN eval(lookup(expr_, symbols_zero))
             ELSE LET map == eval(lookup(expr_, symbols_zero))
                      key == eval(lookup(expr_, symbols_one))
                      result == eval_lookup(map, key)
                  IN  IF expr_len = 2 \/ is_error(result)
                      THEN result
                      ELSE make_statement(rest_from(expr_, symbols_zero :> result,
                                                    2, expr_len))

(***************************************************************************)
(* The reader.  str is the text, a sequence of characters; an iterator si  *)
(* is an index into it and last (cend) is Len(str) + 1.  Each reading       *)
(* function returns <<si, atom>>.                                          *)
(***************************************************************************)
Lower == {"a", "b", "c", "d", "e", "f", "g", "h", "i", "j", "k", "l", "m",
          "n", "o", "p", "q", "r", "s", "t", "u", "v", "w", "x", "y", "z"}

Upper == {"A", "B", "C", "D", "E", "F", "G", "H", "I", "J", "K", "L", "M",
          "N", "O", "P", "Q", "R", "S", "T", "U", "V", "W", "X", "Y", "Z"}

isalnum(c) == c \in Lower \cup Upper \cup {Digit[i] : i \in 1..10}

isspace(c) == c \in {" ", "\t", "\n", "\r", "\f"}

is_symbol_char(c) == isalnum(c) \/ c \in {"_", "!", "?", "+", "-", "*", "/", "%"}

last(str) == Len(str) + 1

\* std::nullopt of std::optional<atom>
nullopt == <<"nullopt", "">>

RECURSIVE skip_ws(_, _)
skip_ws(str, si) ==
    IF si # last(str) /\ isspace(str[si]) THEN skip_ws(str, si + 1) ELSE si

\* std::string(first, si)
RECURSIVE string_of(_, _, _)
string_of(str, first, si) ==
    IF first = si THEN "" ELSE str[first] \o string_of(str, first + 1, si)

RECURSIVE symbol_end(_, _)
symbol_end(str, si) ==
    IF si # last(str) /\ is_symbol_char(str[si]) THEN symbol_end(str, si + 1) ELSE si

read_symbol(str, si) ==
    LET e == symbol_end(str, si) IN <<e, make_symbol(string_of(str, si, e))>>

read_substitution(str, si) ==
    LET e == symbol_end(str, si + 1) IN <<e, make_substitution(string_of(str, si + 1, e))>>

RECURSIVE read_string_loop(_, _, _, _)
read_string_loop(str, si, quote_char, ss) ==
    IF si = last(str)
    THEN <<si, make_error(symbols_read_error, "Unexpected eof while reading string", <<>>)>>
    ELSE IF str[si] = "\\"
         THEN IF si + 1 # last(str)
              THEN read_string_loop(str, si + 2, quote_char, ss \o str[si + 1])
              ELSE read_string_loop(str, si + 1, quote_char, ss)
         ELSE IF str[si] = quote_char
              THEN <<si + 1, make_string(ss)>>
              ELSE read_string_loop(str, si + 1, quote_char, ss \o str[si])

read_string(str, si) == read_string_loop(str, si + 1, str[si], "")

eof_error == make_error(symbols_read_error, "Unexpected eof while reading table", <<>>)

unexpected_character(c) ==
    make_error(symbols_read_error, "Unexpected character '" \o c \o "'", <<>>)

RECURSIVE read_atom(_, _)
RECURSIVE read_statement_loop(_, _, _, _)
RECURSIVE read_table_loop(_, _, _, _)

read_statement(str, si) == read_statement_loop(str, si, <<>>, 0)

\* A faulty end_of_statement: a single atom is not unwrapped.
end_of_statement_wrapped(values, n) ==
    IF DOMAIN values = {}
    THEN make_error(symbols_read_error, "Expected a statement", <<>>)
    ELSE make_statement(values)

\* read_statement when no further atom can be read: values holds the n atoms read.
end_of_statement(values, n) ==
    IF DOMAIN values = {}
    THEN make_error(symbols_read_error, "Expected a statement", <<>>)
    ELSE IF n = 1
    THEN values[symbols_zero]
    ELSE make_statement(values)

\* What read_table does with a key it has read, from the '=' on.
read_table_entry(str, si1, key, values, has_sub) ==
    LET si == skip_ws(str, si1)
    IN  IF si = last(str)
        THEN <<si, eof_error>>
        ELSE IF str[si] # "="
        THEN <<si, make_error(symbols_read_error,
                              "Unexpected character '" \o str[si] \o "' (expected '=')",
                              <<>>)>>
        ELSE LET r == read_statement(str, si + 1)
                 val == r[2]
             IN  IF is_error(val)
                 THEN <<r[1], val>>
                 ELSE LET si3 == skip_ws(str, r[1])
                      IN  IF si3 = last(str)
                          THEN <<si3, eof_error>>
                          ELSE read_table_loop(str,
                                               IF str[si3] = "," THEN si3 + 1 ELSE si3,
                                               emplace(values, key, val), has_sub)

read_table_loop(str, si0, values, has_sub) ==
    LET si == skip_ws(str, si0)
    IN  IF si = last(str)
        THEN <<si, eof_error>>
        ELSE IF str[si] = "}"
        THEN <<si + 1, make_table(values)>>
        ELSE LET r == read_atom(str, si)
                 pkey == r[2]
             IN  IF type(pkey) = "nullopt"
                 THEN <<r[1], unexpected_character(str[r[1]])>>
                 ELSE IF is_substitution(pkey) /\ has_sub
                 THEN <<r[1], make_error(symbols_read_error,
                                         "Table has more than one universal substitution.",
                                         <<>>)>>
                 ELSE read_table_entry(str, r[1], pkey, values,
                                       has_sub \/ is_substitution(pkey))

read_table(str, si) == read_table_loop(str, si + 1, <<>>, FALSE)

read_atom(str, si0) ==
    LET si == skip_ws(str, si0)
    IN  IF si = last(str) THEN <<si, nullopt>>
        ELSE IF is_symbol_char(str[si]) THEN read_symbol(str, si)
        ELSE IF str[si] = "$" THEN read_substitution(str, si)
        ELSE IF str[si] \in {"\"", "'"} THEN read_string(str, si)
        ELSE IF str[si] = "{" THEN read_table(str, si)
        ELSE <<si, nullopt>>

read_statement_loop(str, si0, values, n) ==
    LET r == read_atom(str, si0)
        si == r[1]
        result == r[2]
    IN  IF type(result) = "nullopt"
        THEN <<si, end_of_statement(values, n)>>
        ELSE IF is_error(result)
        THEN <<si, result>>
        ELSE read_statement_loop(str, si, emplace(values, make_symbol(to_string(n)), result),
                                 n + 1)

\* read of a string atom whose characters are str
read(str) ==
    LET r == read_statement(str, 1)
        si == r[1]
        result == r[2]
    IN  IF ~is_error(result) /\ si # last(str)
        THEN unexpected_character(str[si])
        ELSE result

(***************************************************************************)
(* The input lines the driver is given.                                    *)
(***************************************************************************)
MaxPieces == 5

MaxEntries == 2

MaxSteps == 6

SeqsUpTo(S, n) == UNION {[1..i -> S] : i \in 0..n}

\* Every text of at most MaxPieces characters over ShortChars.
ShortChars == {"{", "}", "=", " ", "a", "'"}

ShortLines == SeqsUpTo(ShortChars, MaxPieces)

w_type == <<"_", "_", "t", "y", "p", "e">>

w_error == <<"e", "r", "r", "o", "r">>

w_statement == <<"s", "t", "a", "t", "e", "m", "e", "n", "t">>

w_message == <<"m", "e", "s", "s", "a", "g", "e">>

w_map == <<"m", "a", "p">>

\* Table literals { k = v, ... } of at most MaxEntries entries.
EntryKeys == {"a", "b"}

EntryValues == {"1", "2"}

EntryTexts == {<<k, "=", v>> : k \in EntryKeys, v \in EntryValues}
              \cup {<<"$", k, "=", v>> : k \in {"x", "y"}, v \in EntryValues}

RECURSIVE JoinEntries(_)
JoinEntries(es) ==
    IF es = <<>> THEN <<>>
    ELSE IF Len(es) = 1 THEN Head(es)
    ELSE Head(es) \o <<",">> \o JoinEntries(Tail(es))

TableLines == {<<"{">> \o JoinEntries(es) \o <<"}">> : es \in SeqsUpTo(EntryTexts, MaxEntries)}

\* One-entry tables applied to one or two arguments: m k and m k j.
KeyTexts == {<<"a">>, <<"$", "x">>, w_type, w_message, <<"0">>}

ValueTexts == {<<"a">>, <<"b">>, <<"$", "x">>, <<"$", "y">>, w_error, w_statement,
               <<"a", " ", "b">>, <<"$", "x", " ", "$", "x">>, <<"b", " ", "$", "x">>,
               <<"a", " ", "$", "y">>, <<"$", "y", " ", "a">>,
               <<"{", "b", "=", "c", "}">>, <<"{", "$", "x", "=", "$", "x", "}">>,
               <<"{", "a", "=", "$", "x", "}">>, <<"'", "s", "'">>,
               <<"{", "$", "x", "=", "$", "x", " ", "$", "x", "}", " ", "$", "x">>,
               <<"{", "$", "x", "=", "{", "$", "x", "=", "$", "x", " ", "$", "x", "}",
                 " ", "$", "x", "}", " ", "$", "x">>}

MapTexts == {<<"{">> \o k \o <<"=">> \o v \o <<"}">> : k \in KeyTexts, v \in ValueTexts}

ArgTexts == {<<"a">>, <<"b">>, w_message, w_map, <<"'", "s", "'">>, <<"{", "}">>,
             <<"{", "$", "x", "=", "$", "x", " ", "$", "x", "}">>,
             <<"{">> \o w_type \o <<"=">> \o w_statement
                 \o <<",", "0", "=", "{", "a", "=", "b", "}", ",", "1", "=", "a", "}">>}

Programs ==
    MapTexts
    \cup {m \o <<" ">> \o k : m \in MapTexts, k \in ArgTexts}
    \cup {m \o <<" ">> \o m : m \in MapTexts}
    \cup {m \o <<" ">> \o k \o <<" ">> \o j : m \in MapTexts, k \in ArgTexts, j \in ArgTexts}

\* Words separated by single spaces.
MaxWords == 3

RECURSIVE JoinWords(_)
JoinWords(ws) ==
    IF ws = <<>> THEN <<>>
    ELSE IF Len(ws) = 1 THEN Head(ws)
    ELSE Head(ws) \o <<" ">> \o JoinWords(Tail(ws))

WordLines == {JoinWords(ws) : ws \in SeqsUpTo({<<"a">>, <<"b">>}, MaxWords)}

\* The examples of the program's documentation.
w_foo == <<"f", "o", "o">>

w_bar == <<"b", "a", "r">>

w_done == <<"d", "o", "n", "e">>

line_lookup == <<"{">> \o w_foo \o <<"=">> \o w_bar \o <<"}", " ">> \o w_foo

line_missing == <<"{", "}", " ">> \o w_foo

line_identity == <<"{", "$", "x", "=", "$", "x", "}", " ">> \o w_foo

line_pattern == <<"{", "$", "x", "=">> \o w_bar \o <<" ", "$", "x", "}", " ">> \o w_foo

line_chain == <<"{", "k", "=", "{", "j", "=">> \o w_done \o <<"}", "}", " ", "k", " ", "j">>

line_duplicate == <<"{", "a", " ", "=", " ", "1", ",", " ", "a", " ", "=", " ", "2", "}">>

line_unterminated == <<"{", "a", " ", "=", " ", "1">>

Samples == {line_lookup, line_missing, line_identity, line_pattern, line_chain,
            line_duplicate, line_unterminated}

Lines == ShortLines \cup TableLines \cup WordLines \cup Programs \cup Samples

(***************************************************************************)
(* The driver loop, repl()                                                 *)
(***************************************************************************)
no_value == make_symbol("")

no_output == [kind |-> "", text |-> ""]

Init ==
    /\ pc = "prompt"
    /\ input = <<>>
    /\ value = no_value
    /\ expr = no_value
    /\ known_states = {}
    /\ infinite_loop = FALSE
    /\ steps = 0
    /\ trace = <<>>
    /\ out = no_output

\* std::cout << prefix << lookup(value, symbols::message).get_value(): get_value
\* asserts is_string_type, and the failed assertion ends the process.
PrintError(prefix, v) ==
    LET m == lookup(v, symbols_message)
    IN  IF is_string_type(m)
        THEN /\ out' = [kind |-> prefix, text |-> get_value(m)]
             /\ pc' = "printed"
        ELSE /\ out' = out
             /\ pc' = "aborted"

\* prompt_user and read; a read error is printed right away.
Prompt ==
    /\ pc = "prompt"
    /\ \E line \in Lines :
          /\ input' = line
          /\ value' = read(line)
          /\ IF is_error(value')
             THEN PrintError("Read error: ", value')
             ELSE pc' = "eval" /\ out' = out
          /\ trace' = <<value'>>
    /\ UNCHANGED <<known_states, infinite_loop, expr, steps>>

\* A faulty is_known: no state is ever found.
is_known_never(states, v) == FALSE

\* known_states.find(value) != known_states.end()
is_known(states, v) == v \in states

\* known_states.emplace(value)
remember(states, v) == states \cup {v}

\* One iteration of while (is_statement(value)).
EvalStep ==
    /\ pc = "eval"
    /\ ~infinite_loop
    /\ is_statement(value)
    /\ steps < MaxSteps
    /\ expr' = value
    /\ value' = eval(value)
    /\ steps' = steps + 1
    /\ trace' = Append(trace, value')
    /\ IF is_known(known_states, value')
       THEN infinite_loop' = TRUE /\ known_states' = known_states
       ELSE infinite_loop' = FALSE /\ known_states' = remember(known_states, value')
    /\ UNCHANGED <<pc, input, out>>

\* The loop is left: print.
PrintResult ==
    /\ pc = "eval"
    /\ infinite_loop \/ ~is_statement(value)
    /\ IF infinite_loop
       THEN out' = [kind |-> "Infinite loop detected, bailing", text |-> ""] /\ pc' = "printed"
       ELSE IF is_error(value)
       THEN PrintError("Eval error: ", value)
       ELSE out' = [kind |-> "value", text |-> ""] /\ pc' = "printed"
    /\ UNCHANGED <<input, value, known_states, infinite_loop, expr, steps, trace>>

\* while (true): back to the prompt, with fresh locals.
Continue ==
    /\ pc = "printed"
    /\ pc' = "prompt"
    /\ input' = <<>>
    /\ value' = no_value
    /\ expr' = no_value
    /\ known_states' = {}
    /\ infinite_loop' = FALSE
    /\ steps' = 0
    /\ trace' = <<>>
    /\ out' = no_output

Next == Prompt \/ EvalStep \/ PrintResult \/ Continue

Spec == Init /\ [][Next]_vars

(***************************************************************************)
(* Vocabulary of the properties, stated on the atoms themselves.           *)
(***************************************************************************)
Sym(v) == <<"symbol", v>>

\* The statement whose elements are xs[1], ..., xs[Len(xs)].
Statement(xs) ==
    <<"table",
      [key \in {Sym(to_string(i - 1)) : i \in 1..Len(xs)} \cup {Sym("__type")} |->
          IF key = Sym("__type") THEN Sym("statement")
          ELSE xs[CHOOSE i \in 1..Len(xs) : to_string(i - 1) = key[2]]]>>

\* Element i of a statement (i < len).
Elem(a, i) == a[2][Sym(to_string(i))]

\* value is what read returned for input.
ReadDone == pc # "prompt" /\ steps = 0

\* value is what eval returned for expr.
Stepped == steps > 0

SubKeys(m) == {k \in DOMAIN m[2] : k[1] = "substitution"}

IsLookupError(r, m, k) ==
    /\ is_error(r)
    /\ {Sym("__error-type"), Sym("map"), Sym("key")} \subseteq DOMAIN r[2]
    /\ r[2][Sym("__error-type")] = Sym("lookup-error")
    /\ r[2][Sym("map")] = m
    /\ r[2][Sym("key")] = k

LookupSpec(m, k, r) ==
    IF m[1] = "table" /\ k \in DOMAIN m[2] THEN r = m[2][k] ELSE IsLookupError(r, m, k)

(***************************************************************************)
(* C1                                                                      *)
(***************************************************************************)
\* The atoms of t at the positions S are pairwise different.
Distinct(t, S) == \A i \in S, j \in S : i # j => t[i] # t[j]

\* C1: cycle detection.  trace holds the atom read, then the atoms eval
\* produced.  While the driver has not stopped for a loop, the atoms eval
\* produced are pairwise different and all recorded.  It stops for a loop
\* exactly when a step reproduces an atom produced earlier; with N distinct
\* atoms in the run before the repeat that is after at most N + 1 steps (N
\* counted with or without the atom read), and it then reports the loop.
C1_CycleDetection ==
    LET n == Len(trace)
    IN  /\ pc # "prompt" => n = steps + 1
        /\ ~infinite_loop /\ n > 0 =>
              /\ Distinct(trace, 2..n)
              /\ known_states = {trace[i] : i \in 2..n}
        /\ infinite_loop =>
              /\ \E i \in 2..(n - 1) : trace[i] = trace[n]
              /\ Distinct(trace, 2..(n - 1))
              /\ steps = Cardinality({trace[i] : i \in 2..(n - 1)}) + 1
              /\ steps <= Cardinality({trace[i] : i \in 1..(n - 1)}) + 1
        /\ pc = "printed" /\ Stepped =>
              (infinite_loop <=> out.kind = "Infinite loop detected, bailing")

\* A run with two distinct states before the repeat, stopped at the third step.
C1_Witness ==
    /\ pc = "printed"
    /\ infinite_loop
    /\ steps = 3
    /\ Len(trace) = 4
    /\ trace[4] = trace[3]
    /\ Cardinality(known_states) = 2
    /\ out.kind = "Infinite loop detected, bailing"

(***************************************************************************)
(* C2                                                                      *)
(***************************************************************************)
\* C2: a single bad statement never terminates the process: the driver never
\* aborts, and an error-classified atom is reported as a read or eval error
\* with its message.
C2_NeverAborts ==
    /\ pc # "aborted"
    /\ pc = "printed" /\ is_error(value) /\ ~infinite_loop =>
          /\ out.kind = (IF Stepped THEN "Eval error: " ELSE "Read error: ")
          /\ out.text = value[2][Sym("message")][2]

(***************************************************************************)
(* C3                                                                      *)
(***************************************************************************)
\* C3: multi-element chaining.  One eval step on a statement of length n > 2
\* whose lookup succeeds returns a statement of length n - 1: element 0 is the
\* lookup result and element i is the original element i + 1, unchanged.  The
\* driver takes (m1 k j), m1 = {k = m2}, m2 = {j = done}, through (m2 j) to
\* done.
C3_Chaining ==
    /\ Stepped /\ is_statement(expr) /\ len(expr) > 2 =>
          LET n == len(expr)
              r == eval_lookup(eval(Elem(expr, 0)), eval(Elem(expr, 1)))
          IN  ~is_error(r) =>
                 /\ is_statement(value)
                 /\ len(value) = n - 1
                 /\ Elem(value, 0) = r
                 /\ \A i \in 1..(n - 2) : Elem(value, i) = Elem(expr, i + 1)
    /\ input = line_chain /\ pc # "prompt" =>
          LET m2 == <<"table", Sym("j") :> Sym("done")>>
              m1 == <<"table", Sym("k") :> m2>>
          IN  /\ steps = 0 => value = Statement(<<m1, Sym("k"), Sym("j")>>)
              /\ steps = 1 => value = Statement(<<m2, Sym("j")>>)
              /\ steps = 2 => value = Sym("done")
              /\ pc = "printed" =>
                    /\ trace = <<Statement(<<m1, Sym("k"), Sym("j")>>),
                                 Statement(<<m2, Sym("j")>>), Sym("done")>>
                    /\ out.kind = "value"

C3_Witness ==
    /\ input = line_chain
    /\ pc = "printed"
    /\ steps = 2
    /\ expr = Statement(<<(<<"table", Sym("j") :> Sym("done")>>), Sym("j")>>)
    /\ value = Sym("done")

(***************************************************************************)
(* C4                                                                      *)
(***************************************************************************)
\* C4: direct lookup.  lookup(m, k) is the value stored under k when m is a
\* table containing k, and otherwise a lookup-error with map = m and key = k;
\* eval of a 2-element statement (m k) of self-evaluating atoms, m a table
\* with no substitution key, returns just that.
C4_DirectLookup ==
    Stepped /\ is_statement(expr) /\ len(expr) >= 2 =>
        LET m == Elem(expr, 0)
            k == Elem(expr, 1)
        IN  /\ LookupSpec(m, k, lookup(m, k))
            /\ (/\ len(expr) = 2
                /\ m[1] = "table"
                /\ ~is_statement(m)
                /\ ~is_statement(k)
                /\ SubKeys(m) = {}) => LookupSpec(m, k, value)

\* ({} foo) gives the lookup-error whose key is foo.
C4_Witness ==
    /\ input = line_missing
    /\ Stepped
    /\ expr = Statement(<<(<<"table", <<>> >>), Sym("foo")>>)
    /\ IsLookupError(value, <<"table", <<>> >>, Sym("foo"))

(***************************************************************************)
(* C5                                                                      *)
(***************************************************************************)
\* A substitution other than w among the direct elements of statement t.
ForeignSubstitution(t, w) ==
    \E i \in 0..(len(t) - 1) : Elem(t, i)[1] = "substitution" /\ Elem(t, i) # w

\* What C5 says eval((m k)) is, for m with the pattern entry (w, t); strict
\* says it of every statement template, and otherwise only of those without a
\* foreign substitution.
UniversalSpec(m, k, w, t, r, strict) ==
    IF k \in DOMAIN m[2]
    THEN r = m[2][k]
    ELSE /\ t = w => r = k
         /\ t[1] # "substitution" /\ ~is_statement(t) => r = t
         /\ is_statement(t) /\ (strict \/ ~ForeignSubstitution(t, w)) =>
               /\ is_statement(r)
               /\ len(r) = len(t)
               /\ \A i \in 0..(len(t) - 1) :
                     Elem(r, i) = (IF Elem(t, i) = w THEN k ELSE Elem(t, i))

UniversalHolds(strict) ==
    Stepped /\ is_statement(expr) /\ len(expr) = 2 =>
        LET m == Elem(expr, 0)
            k == Elem(expr, 1)
        IN  (/\ m[1] = "table"
             /\ ~is_statement(m)
             /\ ~is_statement(k)
             /\ Cardinality(SubKeys(m)) = 1) =>
                LET w == CHOOSE w \in SubKeys(m) : TRUE
                IN  UniversalSpec(m, k, w, m[2][w], value, strict)

\* C5 as claimed: universal lookup substitution is shallow and exact, for
\* every template: a statement template yields a statement of the same length
\* whose element i is k where the template has $w and the template's element
\* otherwise.
C5_Original == UniversalHolds(TRUE)

\* C5 as amended: the same, for every template that is not a statement with a
\* substitution other than $w among its direct elements.  A key present in m
\* is answered by the direct entry.
C5_Amended == UniversalHolds(FALSE)

\* ({$x = bar $x} foo) gives (bar foo).
C5_Witness ==
    /\ input = line_pattern
    /\ Stepped
    /\ value = Statement(<<Sym("bar"), Sym("foo")>>)

(***************************************************************************)
(* C6                                                                      *)
(***************************************************************************)
\* C6: table key uniqueness with last write wins.  Reading a table literal
\* that writes the same key twice gives a table with one entry for that key,
\* holding the value written last; {a = 1, a = 2} maps a to 2.
C6_LastWriteWins ==
    ReadDone =>
        /\ \A k \in EntryKeys, v1 \in EntryValues, v2 \in EntryValues :
              input = <<"{", k, "=", v1, ",", k, "=", v2, "}">> =>
                  value = <<"table", Sym(k) :> Sym(v2)>>
        /\ input = line_duplicate => value = <<"table", Sym("a") :> Sym("2")>>

(***************************************************************************)
(* C7                                                                      *)
(***************************************************************************)
IsReadError(a) ==
    /\ is_error(a)
    /\ Sym("__error-type") \in DOMAIN a[2]
    /\ a[2][Sym("__error-type")] = Sym("read-error")

\* a is a read error or has one among its keys and values, at any depth.
RECURSIVE HasReadError(_)
HasReadError(a) ==
    \/ IsReadError(a)
    \/ /\ a[1] = "table"
       /\ \E k \in DOMAIN a[2] : HasReadError(k) \/ HasReadError(a[2][k])

\* The number of '{' left open at the end of the text, counting the braces
\* outside string literals; quote is the open string's delimiter, or "".
RECURSIVE OpenBraces(_, _, _, _)
OpenBraces(text, i, depth, quote) ==
    IF i > Len(text) THEN depth
    ELSE IF quote # ""
    THEN IF text[i] = "\\" THEN OpenBraces(text, i + 2, depth, quote)
         ELSE IF text[i] = quote THEN OpenBraces(text, i + 1, depth, "")
         ELSE OpenBraces(text, i + 1, depth, quote)
    ELSE IF text[i] \in {"\"", "'"} THEN OpenBraces(text, i + 1, depth, text[i])
    ELSE IF text[i] = "{" THEN OpenBraces(text, i + 1, depth + 1, "")
    ELSE IF text[i] = "}" /\ depth > 0 THEN OpenBraces(text, i + 1, depth - 1, "")
    ELSE OpenBraces(text, i + 1, depth, "")

\* C7: reader error propagation.  read never returns a non-error table or
\* statement built around a read error that arose in a nested atom, and every
\* text with a '{' that has no matching '}' yields a read error.
C7_ReadErrorsPropagate ==
    ReadDone =>
        /\ ~is_error(value) => ~HasReadError(value)
        /\ OpenBraces(input, 1, 0, "") > 0 => IsReadError(value)

(***************************************************************************)
(* C8                                                                      *)
(***************************************************************************)
\* C8: evaluator error propagation.  In one eval step on a statement, when
\* evaluating element 0 (the map) or element 1 (the key) yields an error atom,
\* eval returns that error atom.
C8_EvalErrorsPropagate ==
    Stepped /\ is_statement(expr) /\ len(expr) >= 2 =>
        LET map == eval(Elem(expr, 0))
            key == eval(Elem(expr, 1))
        IN  /\ is_error(map) => value = map
            /\ ~is_error(map) /\ is_error(key) => value = key

(***************************************************************************)
(* C9                                                                      *)
(***************************************************************************)
\* a, or a table value nested in it, is a statement of length 0 or 1.
RECURSIVE HasShortStatement(_)
HasShortStatement(a) ==
    \/ is_statement(a) /\ len(a) <= 1
    \/ /\ a[1] = "table"
       /\ \E k \in DOMAIN a[2] : HasShortStatement(a[2][k])

\* text holds the characters of w in a row.
Spells(text, w) ==
    \E i \in 1..(Len(text) - Len(w) + 1) : SubSeq(text, i, i + Len(w) - 1) = w

\* For a line of n one-letter words: a read error for n = 0, the bare symbol
\* for n = 1, the statement of the n symbols in order for n >= 2.
UnwrapLaw ==
    \A ws \in SeqsUpTo({"a", "b"}, MaxWords) :
        input = JoinWords([i \in 1..Len(ws) |-> <<ws[i]>>]) =>
            IF Len(ws) = 0 THEN IsReadError(value)
            ELSE IF Len(ws) = 1 THEN value = Sym(ws[1])
            ELSE value = Statement([i \in 1..Len(ws) |-> Sym(ws[i])])

\* C9 as claimed: the unwrap law, and no atom returned by read, nor any table
\* value nested in it, is a statement of length 0 or 1.
C9_Original == ReadDone => UnwrapLaw /\ ~HasShortStatement(value)

\* C9 as amended: the unwrap law, and for every text that does not itself
\* spell the key __type, no atom returned by read, nor any table value nested
\* in it, is a statement of length 0 or 1.
C9_Amended == ReadDone => UnwrapLaw /\ (~Spells(input, w_type) => ~HasShortStatement(value))

\* A single atom is returned bare.
C9_Witness ==
    /\ ReadDone
    /\ input = <<"{", "a", "=", "a", "}">>
    /\ value = <<"table", Sym("a") :> Sym("a")>>
    /\ ~is_statement(value)

(***************************************************************************)
(* C10                                                                     *)
(***************************************************************************)
\* C10: substitution mismatch is a lookup error.  When universal lookup is
\* applied for a table with the pattern entry (w, t) and t is, or has among
\* its direct elements, a substitution other than w, the eval step returns a
\* lookup-error carrying map and key.
C10_MismatchIsError ==
    Stepped /\ is_statement(expr) /\ len(expr) >= 2 =>
        LET map == eval(Elem(expr, 0))
            key == eval(Elem(expr, 1))
        IN  (/\ map[1] = "table"
             /\ is_error(lookup(map, key))
             /\ Cardinality(SubKeys(map)) = 1) =>
                LET w == CHOOSE w \in SubKeys(map) : TRUE
                    t == map[2][w]
                IN  (\/ t[1] = "substitution" /\ t # w
                     \/ is_statement(t) /\ ForeignSubstitution(t, w)) =>
                        IsLookupError(value, map, key)

====
